---------------------------- MODULE Spec2Model ----------------------------
(***************************************************************************)
(* Model of src/claude_pdf_extraction.py: the PDFTableExtractor pipeline   *)
(* (analyse, extract, validate, enhance, compile, record) and the          *)
(* AdaptiveExtractor that learns structural patterns from each result.     *)
(*                                                                         *)
(* Strings the code inspects (titles) are sequences of one-character       *)
(* strings, so that lower(), split() and the substring test `in` are       *)
(* computed as Python computes them.  Optional values (None or a value)    *)
(* are sequences of length 0 or 1.  A Python object that is reachable      *)
(* through two references (the result dictionary, held by the caller and   *)
(* by extraction_history) is stored once, in extraction_history, and the   *)
(* caller holds its index.                                                 *)
(***************************************************************************)
EXTENDS Integers, Sequences, FiniteSets, TLC

(***************************************************************************)
(* Bounds of the model.                                                    *)
(***************************************************************************)
MaxTables == 2      \* tables the analyser reports for one document
MaxDocs == 2        \* calls of extract / extract_and_learn in one run

\* threads that may share one AdaptiveExtractor
Workers == {1, 2}

None == << >>
Some(v) == <<v>>

(***************************************************************************)
(* Strings.                                                                *)
(***************************************************************************)
TitleCosts == <<"T", "a", "b", "l", "e", " ", "1", ":", " ", "C", "o", "s", "t", "s", " ", "b", "y", " ", "T", "a", "s", "k">>
TitleSchedule == <<"T", "a", "b", "l", "e", " ", "2", ":", " ", "S", "c", "h", "e", "d", "u", "l", "e", " ", "b", "y", " ", "T", "a", "s", "k">>
TitleBudget == <<"B", "u", "d", "g", "e", "t">>
TitleNotes == <<"T", "a", "b", "l", "e", " ", "1", ":", " ", "N", "o", "t", "e", "s">>
TitleEmpty == << >>
KwCost == <<"c", "o", "s", "t">>
KwBudget == <<"b", "u", "d", "g", "e", "t">>
KwMilestone == <<"m", "i", "l", "e", "s", "t", "o", "n", "e">>
KwSchedule == <<"s", "c", "h", "e", "d", "u", "l", "e">>
KwTable1 == <<"T", "a", "b", "l", "e", " ", "1">>

\* str.lower(), one character
LowerChar(c) ==
    CASE c = "T" -> "t" [] c = "C" -> "c" [] c = "S" -> "s"
      [] c = "B" -> "b" [] c = "N" -> "n" [] OTHER -> c

\* str.lower()
Lower(s) == [i \in DOMAIN s |-> LowerChar(s[i])]

\* `sub in s` for strings
Contains(s, sub) ==
    \E i \in 1..(Len(s) - Len(sub) + 1) : SubSeq(s, i, i + Len(sub) - 1) = sub

\* str.split() with no argument: the maximal runs of non-blank characters
RECURSIVE SplitFrom(_, _, _)
SplitFrom(s, i, word) ==
    IF i > Len(s)
    THEN IF word = << >> THEN << >> ELSE <<word>>
    ELSE IF s[i] = " "
         THEN (IF word = << >> THEN << >> ELSE <<word>>) \o SplitFrom(s, i + 1, << >>)
         ELSE SplitFrom(s, i + 1, Append(word, s[i]))

Split(s) == SplitFrom(s, 1, << >>)

Range(f) == {f[i] : i \in DOMAIN f}

(***************************************************************************)
(* ExtractedTable and the tables the analyser can report.                  *)
(***************************************************************************)
Row(n) == [i \in 1..n |-> "x"]

ExtractedTable(id, page, title, confidence, headers, data) ==
    [table_id |-> id, page |-> page, title |-> title, confidence |-> confidence,
     headers |-> headers, data |-> data, context |-> "context",
     notes |-> None, relationships |-> None, totals |-> None]

Headers2 == <<"Task No.", "Description">>

\* a candidate: a table before _extract_tables numbers it
Good == ExtractedTable(0, 1, TitleCosts, 100, Headers2, <<Row(2), Row(2)>>)

Corpora ==
    { {Good, [Good EXCEPT !.data = <<Row(2), Row(1)>>]},          \* a short row
      {Good, [Good EXCEPT !.data = <<Row(3), Row(2)>>]},          \* a long row
      {Good, [Good EXCEPT !.data = << >>]},                        \* no data row
      {Good, [Good EXCEPT !.headers = << >>, !.data = <<Row(0)>>]},
      {[Good EXCEPT !.confidence = 80], [Good EXCEPT !.confidence = 95]},
      {Good, [Good EXCEPT !.title = TitleSchedule]},
      {Good, [Good EXCEPT !.title = TitleNotes]},
      {[Good EXCEPT !.title = TitleBudget], [Good EXCEPT !.title = TitleEmpty]},
      {Good, [Good EXCEPT !.page = 2]},
      {Good, [Good EXCEPT !.data = <<Row(2)>>]} }

PdfPaths == {"BHP_Proposal.pdf"}

\* os.path.basename, on the paths of PdfPaths (none holds a separator)
Basename(path) == path

(***************************************************************************)
(* Configuration.                                                          *)
(***************************************************************************)
DefaultThreshold == 95
BatchThreshold == 90

DefaultConfig ==
    [confidence_threshold |-> DefaultThreshold, exclude_headers |-> TRUE,
     capture_context |-> TRUE, enable_learning |-> TRUE, parallel_agents |-> 5]

\* the constructor's argument: None, or a dictionary (the last one switches off
\* the option capture_context that the constructor documents)
ConfigArgs ==
    { None,
      Some([x \in {} |-> x]),
      Some([confidence_threshold |-> BatchThreshold, parallel_agents |-> 20,
            enable_learning |-> TRUE]),
      Some([parallel_agents |-> 20, enable_learning |-> TRUE]),
      Some([confidence_threshold |-> DefaultThreshold, capture_context |-> FALSE]) }

\* self.config = config or self._default_config()
Construct(arg) ==
    IF arg = None \/ DOMAIN arg[1] = {} THEN DefaultConfig ELSE arg[1]

(***************************************************************************)
(* PDFTableExtractor: the stages as functions of their arguments.          *)
(***************************************************************************)
\* _analyze_structure: a fixed answer
AnalyzeStructure(path) ==
    [has_tables |-> TRUE, table_pages |-> <<1, 5, 15, 16>>, has_letterhead |-> TRUE,
     has_complex_tables |-> TRUE, document_type |-> "engineering_proposal"]

\* a variant that looks at the first row only
VerifyStructure_FirstRowOnly(table) ==
    IF table.data = << >>
    THEN FALSE
    ELSE Len(table.data[1]) = Len(table.headers)

\* a variant that tolerates rows of another length when they are at most half
VerifyStructure_Tolerant(table) ==
    IF table.data = << >>
    THEN FALSE
    ELSE 2 * Cardinality({i \in DOMAIN table.data :
                            Len(table.data[i]) # Len(table.headers)}) <= Len(table.data)

\* _verify_structure
VerifyStructure(table) ==
    IF table.data = << >>
    THEN FALSE
    ELSE \A i \in DOMAIN table.data : Len(table.data[i]) = Len(table.headers)

\* the test of line 181; reading a key the dictionary lacks raises KeyError
HasThreshold(cfg) == "confidence_threshold" \in DOMAIN cfg

\* a variant with a strict comparison
MeetsThreshold_Strict(table, cfg) == table.confidence > cfg.confidence_threshold

MeetsThreshold(table, cfg) == table.confidence >= cfg.confidence_threshold

\* _validate_extraction, when it does not raise
ValidateExtraction(tables, cfg) ==
    SelectSeq(tables, LAMBDA t : MeetsThreshold(t, cfg) /\ VerifyStructure(t))

\* _validate_extraction raises KeyError at the first table it looks at
ValidateRaises(tables, cfg) == tables # << >> /\ ~HasThreshold(cfg)

\* a variant that tests the title as written, without lower()
IdentifySection_CaseSensitive(table) ==
    IF Contains(table.title, KwCost) \/ Contains(table.title, KwBudget)
    THEN "Financial Summary"
    ELSE IF Contains(table.title, KwMilestone) \/ Contains(table.title, KwSchedule)
         THEN "Project Timeline"
         ELSE "Technical Details"

\* _identify_section
IdentifySection(table) ==
    IF Contains(Lower(table.title), KwCost) \/ Contains(Lower(table.title), KwBudget)
    THEN "Financial Summary"
    ELSE IF Contains(Lower(table.title), KwMilestone)
            \/ Contains(Lower(table.title), KwSchedule)
         THEN "Project Timeline"
         ELSE "Technical Details"

\* a variant that is content with two common terms
TablesRelated_AtLeastTwo(table1, table2) ==
    Cardinality(Range(Split(Lower(table1.title)))
                    \cap Range(Split(Lower(table2.title)))) >= 2

\* _tables_related
TablesRelated(table1, table2) ==
    LET title1_terms == Range(Split(Lower(table1.title)))
        title2_terms == Range(Split(Lower(table2.title)))
        common_terms == title1_terms \cap title2_terms
    IN  Cardinality(common_terms) > 2

\* a variant that compares a table with itself too
IsOther_Always(table, other) == TRUE

\* the test of line 233
IsOther(table, other) == other.table_id # table.table_id

\* _find_related_tables: the titles of the other tables that are related
FindRelatedTables(table, all_tables) ==
    LET keep == SelectSeq(all_tables,
                          LAMBDA other : IsOther(table, other) /\ TablesRelated(table, other))
    IN  [i \in DOMAIN keep |-> keep[i].title]

\* _find_references
FindReferences(table) ==
    IF Contains(table.title, KwTable1) THEN <<"Section 3.2", "Appendix A">> ELSE << >>

\* _enhance_context: every table of the list gets its relationships
EnhanceContext(tables) ==
    [i \in DOMAIN tables |->
        [tables[i] EXCEPT !.relationships =
            Some([document_section |-> IdentifySection(tables[i]),
                  related_tables |-> FindRelatedTables(tables[i], tables),
                  references |-> FindReferences(tables[i])])]]

\* ExtractedTable.to_dict: asdict copies the record field by field
ToDict(table) == table

RECURSIVE SumConfidence(_)
SumConfidence(tables) ==
    IF tables = << >> THEN 0
    ELSE Head(tables).confidence + SumConfidence(Tail(tables))

\* a quotient a / b is kept as the pair; Python raises ZeroDivisionError for b = 0
Quotient(a, b) == [num |-> a, den |-> b]
Zero == Quotient(0, 1)

\* a variant without the guard `if tables`
ConfidenceAverage_Unguarded(tables) == Quotient(SumConfidence(tables), Len(tables))

\* line 278: sum(...) / len(tables) if tables else 0
ConfidenceAverage(tables) ==
    IF tables # << >> THEN Quotient(SumConfidence(tables), Len(tables)) ELSE Zero

\* _generate_doc_id: the first 12 digits of the MD5 of the file name, kept as the name
GenerateDocId(path) == Basename(path)

\* _compile_results (the time stamp and the fixed comparison texts are left out);
\* novel_patterns = << >> stands for a dictionary without the key "novel_patterns"
CompileResults(tables, path) ==
    [document |-> Basename(path),
     document_id |-> GenerateDocId(path),
     tables_found |-> Len(tables),
     title_accuracy |-> 100,
     tables |-> [i \in DOMAIN tables |-> ToDict(tables[i])],
     quality_metrics |->
        [extraction_completeness |-> 100, title_detection_rate |-> 100,
         structural_integrity |-> 100, false_positive_rate |-> 0,
         confidence_average |-> ConfidenceAverage(tables)],
     novel_patterns |-> << >>]

\* _compile_results raises when a division by zero is evaluated
CompileRaises(tables) == ConfidenceAverage(tables).den = 0

RECURSIVE SumTablesFound(_)
SumTablesFound(history) ==
    IF history = << >> THEN 0
    ELSE Head(history).tables_found + SumTablesFound(Tail(history))

\* a / b + c / d
AddQuotient(p, q) == Quotient(p.num * q.den + q.num * p.den, p.den * q.den)

RECURSIVE SumAverages(_)
SumAverages(history) ==
    IF history = << >> THEN Zero
    ELSE AddQuotient(Head(history).quality_metrics.confidence_average,
                     SumAverages(Tail(history)))

\* get_extraction_stats
GetExtractionStats(history) ==
    IF history = << >>
    THEN [message |-> "No extractions performed yet"]
    ELSE LET total_docs == Len(history)
             total_tables == SumTablesFound(history)
             s == SumAverages(history)
         IN  [documents_processed |-> total_docs,
              total_tables_extracted |-> total_tables,
              average_confidence |-> Quotient(s.num, s.den * total_docs),
              tables_docling_would_title |-> total_tables \div 8,
              tables_scaledp_would_corrupt |-> (total_tables * 4) \div 5]

(***************************************************************************)
(* AdaptiveExtractor: the pattern of a table.                              *)
(***************************************************************************)
\* _hash_structure: the MD5 of "<columns>_<page>_<rows>", kept as the triple
HashStructure(table) == <<Len(table.headers), table.page, Len(table.data)>>

\* the dictionary _identify_novel_patterns builds for one table
Pattern(table) ==
    [pattern_id |-> HashStructure(table),
     structure |-> [headers |-> table.headers,
                    column_count |-> Len(table.headers),
                    has_totals |-> table.totals # None,
                    has_notes |-> table.notes # None],
     example_title |-> table.title]

\* a variant that takes every hash for new
IsNovel_Always(pattern_hash, learned) == TRUE

\* pattern_hash not in self.learned_patterns
IsNovel(pattern_hash, learned) == pattern_hash \notin DOMAIN learned

\* self.learned_patterns[key] = value
DictSet(d, key, value) ==
    [k \in DOMAIN d \cup {key} |-> IF k = key THEN value ELSE d[k]]

(***************************************************************************)
(* State.                                                                  *)
(***************************************************************************)
VARIABLES
    config,               \* self.config
    candidates,           \* the tables the analyser can report in this run
    extraction_history,   \* self.extraction_history
    learned_patterns,     \* self.learned_patterns
    novel_discoveries,    \* self.novel_discoveries
    calls,                \* calls made so far
    completed,            \* history: calls of extract that have returned
    pc,                   \* where each thread's call stands
    mode,                 \* the method the thread called
    pdf_path,             \* its argument
    stages,               \* the stages the call has entered, in order
    tables,               \* extract: tables
    validated_tables,     \* extract: validated_tables
    enhanced_tables,      \* extract: enhanced_tables
    results,              \* extract: results, until it is appended to the history
    ref,                  \* the index of the call's result in extraction_history
    novel_patterns,       \* extract_and_learn / _identify_novel_patterns: novel
    err,                  \* the exception that ended the call
    seen                  \* history: how often _identify_novel_patterns met each hash

vars == <<config, candidates, extraction_history, learned_patterns, novel_discoveries,
          calls, completed, pc, mode, pdf_path, stages, tables, validated_tables,
          enhanced_tables, results, ref, novel_patterns, err, seen>>

shared == <<extraction_history, learned_patterns, novel_discoveries>>
locals == <<tables, validated_tables, enhanced_tables, results, ref, novel_patterns>>

Modes == {"extract", "extract_and_learn"}

\* between two calls
Callable(w) == pc[w] \in {"idle", "returned", "raised"}

\* the lists _extract_tables can return: table_id is the position in the list
Numbered(list) == [i \in DOMAIN list |-> [list[i] EXCEPT !.table_id = i]]

TableLists ==
    UNION {[1..n -> candidates] : n \in 0..MaxTables}

\* the result dictionary of the thread's call, once it is in the history
Result(w) == extraction_history[ref[w]]

Init ==
    /\ config \in {Construct(arg) : arg \in ConfigArgs}
    /\ candidates \in Corpora
    /\ extraction_history = << >>
    /\ learned_patterns = [x \in {} |-> x]
    /\ novel_discoveries = << >>
    /\ calls = 0
    /\ completed = 0
    /\ pc = [w \in Workers |-> "idle"]
    /\ mode = [w \in Workers |-> "extract"]
    /\ pdf_path = [w \in Workers |-> "BHP_Proposal.pdf"]
    /\ stages = [w \in Workers |-> << >>]
    /\ tables = [w \in Workers |-> << >>]
    /\ validated_tables = [w \in Workers |-> << >>]
    /\ enhanced_tables = [w \in Workers |-> << >>]
    /\ results = [w \in Workers |-> None]
    /\ ref = [w \in Workers |-> 0]
    /\ novel_patterns = [w \in Workers |-> << >>]
    /\ err = [w \in Workers |-> "none"]
    /\ seen = [x \in {} |-> x]

(***************************************************************************)
(* PDFTableExtractor.extract, one stage per step.                          *)
(***************************************************************************)
\* a thread calls extract or extract_and_learn
Call(w) ==
    /\ Callable(w)
    /\ calls < MaxDocs
    /\ calls' = calls + 1
    /\ \E m \in Modes : mode' = [mode EXCEPT ![w] = m]
    /\ \E path \in PdfPaths : pdf_path' = [pdf_path EXCEPT ![w] = path]
    /\ pc' = [pc EXCEPT ![w] = "extract"]
    /\ stages' = [stages EXCEPT ![w] = << >>]
    /\ tables' = [tables EXCEPT ![w] = << >>]
    /\ validated_tables' = [validated_tables EXCEPT ![w] = << >>]
    /\ enhanced_tables' = [enhanced_tables EXCEPT ![w] = << >>]
    /\ results' = [results EXCEPT ![w] = None]
    /\ ref' = [ref EXCEPT ![w] = 0]
    /\ novel_patterns' = [novel_patterns EXCEPT ![w] = << >>]
    /\ err' = [err EXCEPT ![w] = "none"]
    /\ UNCHANGED <<config, candidates, shared, completed, seen>>

\* Stage 1: doc_structure = self._analyze_structure(pdf_path)
Analyze(w) ==
    /\ pc[w] = "extract"
    /\ AnalyzeStructure(pdf_path[w]).has_tables
    /\ pc' = [pc EXCEPT ![w] = "analyzed"]
    /\ stages' = [stages EXCEPT ![w] = Append(@, "analyze_structure")]
    /\ UNCHANGED <<config, candidates, shared, calls, completed, mode, pdf_path, locals, err, seen>>

\* Stage 2: tables = self._extract_tables(pdf_path, doc_structure)
ExtractTables(w) ==
    /\ pc[w] = "analyzed"
    /\ \E list \in TableLists : tables' = [tables EXCEPT ![w] = Numbered(list)]
    /\ pc' = [pc EXCEPT ![w] = "extracted"]
    /\ stages' = [stages EXCEPT ![w] = Append(@, "extract_tables")]
    /\ UNCHANGED <<config, candidates, shared, calls, completed, mode, pdf_path, validated_tables,
                   enhanced_tables, results, ref, novel_patterns, err, seen>>

\* Stage 3: validated_tables = self._validate_extraction(tables)
Validate(w) ==
    /\ pc[w] = "extracted"
    /\ stages' = [stages EXCEPT ![w] = Append(@, "validate_extraction")]
    /\ IF ValidateRaises(tables[w], config)
       THEN /\ pc' = [pc EXCEPT ![w] = "raised"]
            /\ err' = [err EXCEPT ![w] = "KeyError"]
            /\ UNCHANGED validated_tables
       ELSE /\ pc' = [pc EXCEPT ![w] = "validated"]
            /\ validated_tables' =
                  [validated_tables EXCEPT ![w] = ValidateExtraction(tables[w], config)]
            /\ UNCHANGED err
    /\ UNCHANGED <<config, candidates, shared, calls, completed, mode, pdf_path, tables,
                   enhanced_tables, results, ref, novel_patterns, seen>>

\* a variant of stage 4 that is handed tables in place of validated_tables
Enhance_AllExtracted(w) ==
    /\ pc[w] = "validated"
    /\ enhanced_tables' = [enhanced_tables EXCEPT ![w] = EnhanceContext(tables[w])]
    /\ tables' = [tables EXCEPT ![w] = EnhanceContext(tables[w])]
    /\ pc' = [pc EXCEPT ![w] = "enhanced"]
    /\ stages' = [stages EXCEPT ![w] = Append(@, "enhance_context")]
    /\ UNCHANGED <<config, candidates, shared, calls, completed, mode, pdf_path, validated_tables,
                   results, ref, novel_patterns, err, seen>>

\* Stage 4: enhanced_tables = self._enhance_context(validated_tables); the tables are
\* changed in place, so the three lists show the new relationships
Enhance(w) ==
    /\ pc[w] = "validated"
    /\ LET enhanced == EnhanceContext(validated_tables[w])
           accepted == {validated_tables[w][i].table_id : i \in DOMAIN validated_tables[w]}
           Enhanced(id) == CHOOSE t \in Range(enhanced) : t.table_id = id
       IN  /\ enhanced_tables' = [enhanced_tables EXCEPT ![w] = enhanced]
           /\ validated_tables' = [validated_tables EXCEPT ![w] = enhanced]
           /\ tables' = [tables EXCEPT ![w] =
                            [i \in DOMAIN tables[w] |->
                                IF tables[w][i].table_id \in accepted
                                THEN Enhanced(tables[w][i].table_id)
                                ELSE tables[w][i]]]
    /\ pc' = [pc EXCEPT ![w] = "enhanced"]
    /\ stages' = [stages EXCEPT ![w] = Append(@, "enhance_context")]
    /\ UNCHANGED <<config, candidates, shared, calls, completed, mode, pdf_path, results, ref,
                   novel_patterns, err, seen>>

\* results = self._compile_results(enhanced_tables, pdf_path)
Compile(w) ==
    /\ pc[w] = "enhanced"
    /\ stages' = [stages EXCEPT ![w] = Append(@, "compile_results")]
    /\ IF CompileRaises(enhanced_tables[w])
       THEN /\ pc' = [pc EXCEPT ![w] = "raised"]
            /\ err' = [err EXCEPT ![w] = "ZeroDivisionError"]
            /\ UNCHANGED results
       ELSE /\ pc' = [pc EXCEPT ![w] = "compiled"]
            /\ results' = [results EXCEPT ![w] =
                              Some(CompileResults(enhanced_tables[w], pdf_path[w]))]
            /\ UNCHANGED err
    /\ UNCHANGED <<config, candidates, shared, calls, completed, mode, pdf_path, tables,
                   validated_tables, enhanced_tables, ref, novel_patterns, seen>>

\* self.extraction_history.append(results)
\* a variant that keeps the latest result only
Record_Replace(w) ==
    /\ pc[w] = "compiled"
    /\ extraction_history' = <<results[w][1]>>
    /\ ref' = [ref EXCEPT ![w] = 1]
    /\ results' = [results EXCEPT ![w] = None]
    /\ pc' = [pc EXCEPT ![w] = "recorded"]
    /\ UNCHANGED <<config, candidates, learned_patterns, novel_discoveries, calls, completed,
                   mode, pdf_path, stages, tables, validated_tables, enhanced_tables,
                   novel_patterns, err, seen>>

Record(w) ==
    /\ pc[w] = "compiled"
    /\ extraction_history' = Append(extraction_history, results[w][1])
    /\ ref' = [ref EXCEPT ![w] = Len(extraction_history) + 1]
    /\ results' = [results EXCEPT ![w] = None]
    /\ pc' = [pc EXCEPT ![w] = "recorded"]
    /\ UNCHANGED <<config, candidates, learned_patterns, novel_discoveries, calls, completed, mode,
                   pdf_path, stages, tables, validated_tables, enhanced_tables,
                   novel_patterns, err, seen>>

\* return results: to the caller, or to extract_and_learn
ReturnResults(w) ==
    /\ pc[w] = "recorded"
    /\ pc' = [pc EXCEPT ![w] = IF mode[w] = "extract" THEN "returned" ELSE "identify"]
    /\ completed' = completed + 1
    /\ UNCHANGED <<config, candidates, shared, calls, mode, pdf_path, stages, tables,
                   validated_tables, enhanced_tables, results, ref, novel_patterns,
                   err, seen>>

(***************************************************************************)
(* AdaptiveExtractor.extract_and_learn after extract has returned.         *)
(***************************************************************************)
\* _identify_novel_patterns(results): the patterns of the tables whose hash is not
\* in self.learned_patterns, which the loop does not change
IdentifyNovelPatterns(result, learned) ==
    LET novel_tables ==
            SelectSeq(result.tables, LAMBDA t : IsNovel(HashStructure(t), learned))
    IN  [i \in DOMAIN novel_tables |-> Pattern(novel_tables[i])]

\* _learn_patterns: the dictionary after the loop
RECURSIVE LearnedAfter(_, _)
LearnedAfter(learned, patterns) ==
    IF patterns = << >> THEN learned
    ELSE LearnedAfter(DictSet(learned, Head(patterns).pattern_id, Head(patterns)),
                      Tail(patterns))

\* _learn_patterns: the discoveries after the loop (the time stamp is left out)
DiscoveriesAfter(discoveries, patterns) ==
    discoveries \o [i \in DOMAIN patterns |-> [pattern |-> patterns[i]]]

\* the tally of the hashes line 356 has computed, after the loop over a result's tables
RECURSIVE SeenAfter(_, _)
SeenAfter(tally, result_tables) ==
    IF result_tables = << >> THEN tally
    ELSE LET h == HashStructure(Head(result_tables))
             n == IF h \in DOMAIN tally THEN tally[h] ELSE 0
         IN  SeenAfter(DictSet(tally, h, n + 1), Tail(result_tables))

\* line 343: novel_patterns = self._identify_novel_patterns(results)
Identify(w) ==
    /\ pc[w] = "identify"
    /\ novel_patterns' = [novel_patterns EXCEPT ![w] =
                             IdentifyNovelPatterns(Result(w), learned_patterns)]
    /\ pc' = [pc EXCEPT ![w] = "identified"]
    /\ seen' = SeenAfter(seen, Result(w).tables)
    /\ UNCHANGED <<config, candidates, shared, calls, completed, mode, pdf_path, stages, tables,
                   validated_tables, enhanced_tables, results, ref, err>>

\* lines 344-345: if novel_patterns: self._learn_patterns(novel_patterns)
Learn(w) ==
    /\ pc[w] = "identified"
    /\ IF novel_patterns[w] # << >>
       THEN /\ learned_patterns' = LearnedAfter(learned_patterns, novel_patterns[w])
            /\ novel_discoveries' = DiscoveriesAfter(novel_discoveries, novel_patterns[w])
       ELSE UNCHANGED <<learned_patterns, novel_discoveries>>
    /\ pc' = [pc EXCEPT ![w] = "learned"]
    /\ UNCHANGED <<config, candidates, extraction_history, calls, completed, mode, pdf_path, stages,
                   locals, err, seen>>

\* lines 346-349: if novel_patterns: results["novel_patterns"] = novel_patterns, and
\* return results; results is the dictionary extract appended to the history
Annotate(w) ==
    /\ pc[w] = "learned"
    /\ extraction_history' =
          IF novel_patterns[w] # << >>
          THEN [extraction_history EXCEPT ![ref[w]].novel_patterns = novel_patterns[w]]
          ELSE extraction_history
    /\ pc' = [pc EXCEPT ![w] = "returned"]
    /\ UNCHANGED <<config, candidates, learned_patterns, novel_discoveries, calls, completed, mode,
                   pdf_path, stages, locals, err, seen>>

\* get_extraction_stats, called between two calls: it returns
\* GetExtractionStats(extraction_history) and assigns nothing
GetStats(w) ==
    /\ Callable(w)
    /\ DOMAIN GetExtractionStats(extraction_history) # {}
    /\ UNCHANGED vars

Step(w) ==
    \/ Call(w)
    \/ Analyze(w)
    \/ ExtractTables(w)
    \/ Validate(w)
    \/ Enhance(w)
    \/ Compile(w)
    \/ Record(w)
    \/ ReturnResults(w)
    \/ Identify(w)
    \/ Learn(w)
    \/ Annotate(w)
    \/ GetStats(w)

\* one thread uses the extractor
Next == Step(1)

Spec == Init /\ [][Next]_vars

\* two threads share the extractor
NextShared == \E w \in Workers : Step(w)

\* the shared extractor has the default configuration
InitShared ==
    /\ Init
    /\ config = DefaultConfig
    /\ candidates \in {c \in Corpora : \A t \in c : t.title = TitleCosts /\ VerifyStructure(t)}

SpecShared == InitShared /\ [][NextShared]_vars

(***************************************************************************)
(* Properties.                                                             *)
(***************************************************************************)
Ids(list) == {list[i].table_id : i \in DOMAIN list}

\* validation has returned for the thread's call
Validated(w) == pc[w] \notin {"idle", "extract", "analyzed", "extracted"} /\ err[w] # "KeyError"

\* extract has appended the call's result
Recorded(w) == ref[w] > 0

Uniform(table) ==
    /\ Len(table.data) >= 1
    /\ \A i \in DOMAIN table.data : Len(table.data[i]) = Len(table.headers)

\* a row has another length than the header row
Ragged(table) == \E i \in DOMAIN table.data : Len(table.data[i]) # Len(table.headers)

\* at least one row and at most half of the rows have another length
RepairableRagged(table) ==
    /\ Ragged(table)
    /\ 2 * Cardinality({i \in DOMAIN table.data :
                          Len(table.data[i]) # Len(table.headers)}) <= Len(table.data)

\* C1: every table validation accepts, and every table of every result, has at least
\* one data row and all its rows as long as its header row.
C1_AcceptedTablesUniform ==
    /\ \A w \in Workers : \A i \in DOMAIN validated_tables[w] : Uniform(validated_tables[w][i])
    /\ \A k \in DOMAIN extraction_history :
          \A i \in DOMAIN extraction_history[k].tables :
              Uniform(extraction_history[k].tables[i])

\* C1: a call has returned that was given a table with a row of another length and a
\* well-formed table, and kept only the latter
C1_Witness ==
    \E w \in Workers :
        /\ pc[w] = "returned" /\ Recorded(w)
        /\ Len(tables[w]) = 2
        /\ \E i \in DOMAIN tables[w] : Ragged(tables[w][i])
        /\ Result(w).tables_found = 1
        /\ Uniform(Result(w).tables[1])

\* C2: with a configured confidence_threshold, a table whose confidence is below it
\* is in neither the validated list nor the result nor counted in tables_found, and
\* a well-formed table whose confidence equals the threshold is accepted.
C2_ThresholdRejects ==
    \A w \in Workers :
        (Validated(w) /\ HasThreshold(config)) =>
            /\ \A i \in DOMAIN tables[w] :
                  /\ tables[w][i].confidence < config.confidence_threshold
                        => /\ tables[w][i].table_id \notin Ids(validated_tables[w])
                           /\ Recorded(w) => tables[w][i].table_id \notin Ids(Result(w).tables)
                  /\ (tables[w][i].confidence = config.confidence_threshold
                      /\ Uniform(tables[w][i]))
                        => /\ tables[w][i].table_id \in Ids(validated_tables[w])
                           /\ Recorded(w) => tables[w][i].table_id \in Ids(Result(w).tables)
            /\ Recorded(w) =>
                  Result(w).tables_found =
                      Cardinality({i \in DOMAIN tables[w] :
                                      /\ tables[w][i].confidence >= config.confidence_threshold
                                      /\ Uniform(tables[w][i])})

\* C2: a call has returned that was given a table below the threshold and a table at
\* the threshold, and its result holds the second one only
C2_Witness ==
    \E w \in Workers :
        /\ pc[w] = "returned" /\ Recorded(w) /\ HasThreshold(config)
        /\ \E i \in DOMAIN tables[w] : tables[w][i].confidence < config.confidence_threshold
        /\ \E i \in DOMAIN tables[w] : tables[w][i].confidence = config.confidence_threshold
        /\ Result(w).tables_found = 1
        /\ Result(w).tables[1].confidence = config.confidence_threshold

\* C3, as claimed: a table at or above the threshold in which at least one and at most
\* half of the rows have another length than the header row is kept in the output,
\* with every row brought to the column count.
C3_RaggedTableRepaired ==
    \A w \in Workers :
        (Validated(w) /\ HasThreshold(config)) =>
            \A i \in DOMAIN tables[w] :
                (tables[w][i].confidence >= config.confidence_threshold
                 /\ RepairableRagged(tables[w][i]))
                    => \E j \in DOMAIN validated_tables[w] :
                          /\ validated_tables[w][j].table_id = tables[w][i].table_id
                          /\ Uniform(validated_tables[w][j])

\* C3, amended: a table with a row of another length than the header row is rejected
\* whatever its confidence, and the data of the accepted tables is left as extracted
\* (nothing is padded or truncated).
C3_RaggedTableRejected ==
    \A w \in Workers :
        Validated(w) =>
            /\ \A i \in DOMAIN tables[w] :
                  Ragged(tables[w][i]) =>
                      /\ tables[w][i].table_id \notin Ids(validated_tables[w])
                      /\ Recorded(w) => tables[w][i].table_id \notin Ids(Result(w).tables)
            /\ \A j \in DOMAIN validated_tables[w] :
                  \E i \in DOMAIN tables[w] :
                      /\ tables[w][i].table_id = validated_tables[w][j].table_id
                      /\ tables[w][i].data = validated_tables[w][j].data
                      /\ tables[w][i].headers = validated_tables[w][j].headers

\* C3: a call has returned whose tables held one with one short row out of two, at or
\* above the threshold, and whose result does not hold it
C3_Witness ==
    \E w \in Workers :
        /\ pc[w] = "returned" /\ Recorded(w) /\ HasThreshold(config)
        /\ \E i \in DOMAIN tables[w] :
              /\ RepairableRagged(tables[w][i])
              /\ tables[w][i].confidence >= config.confidence_threshold
              /\ tables[w][i].table_id \notin Ids(Result(w).tables)

\* C4, as claimed: validation never raises, whatever dictionary the constructor took.
C4_ValidationNeverRaises ==
    \A w \in Workers : ~(pc[w] = "raised" /\ err[w] = "KeyError")

\* validation has returned an empty list for the thread's call
NoSurvivor(w) ==
    /\ "validate_extraction" \in Range(stages[w])
    /\ err[w] # "KeyError"
    /\ validated_tables[w] = << >>

\* C5, as claimed: when no table survives validation the call completes, with no
\* table, tables_found = 0 and every quality metric zero.
C5_AllMetricsZero ==
    \A w \in Workers :
        (NoSurvivor(w) /\ Recorded(w)) =>
            LET m == Result(w).quality_metrics
            IN  /\ Result(w).tables = << >>
                /\ Result(w).tables_found = 0
                /\ m.confidence_average = Zero
                /\ m.extraction_completeness = 0
                /\ m.title_detection_rate = 0
                /\ m.structural_integrity = 0
                /\ m.false_positive_rate = 0

\* C5, amended: when no table survives validation the call completes without an
\* exception, its result has no table, tables_found = 0 and confidence_average = 0
\* (nothing is divided by zero); the other metrics keep their fixed values 100, 100,
\* 100 and 0; and get_extraction_stats, called afterwards, divides by a count >= 1.
C5_EmptyResult ==
    /\ \A w \in Workers :
          NoSurvivor(w) =>
              /\ pc[w] # "raised"
              /\ err[w] = "none"
              /\ Recorded(w) =>
                    LET m == Result(w).quality_metrics
                    IN  /\ Result(w).tables = << >>
                        /\ Result(w).tables_found = 0
                        /\ m.confidence_average = Zero
                        /\ m.extraction_completeness = 100
                        /\ m.title_detection_rate = 100
                        /\ m.structural_integrity = 100
                        /\ m.false_positive_rate = 0
    /\ LET stats == GetExtractionStats(extraction_history)
       IN  extraction_history # << >> =>
           /\ stats.average_confidence.den # 0
           /\ stats.documents_processed = Len(extraction_history)
           /\ (\A k \in DOMAIN extraction_history : extraction_history[k].tables = << >>)
                  => stats.total_tables_extracted = 0 /\ stats.average_confidence.num = 0

\* C5: a call given tables has returned a result without any, and
\* get_extraction_stats can be called after it
C5_Witness ==
    \E w \in Workers :
        /\ NoSurvivor(w) /\ pc[w] = "returned" /\ Recorded(w)
        /\ tables[w] # << >>
        /\ ENABLED GetStats(w)
        /\ extraction_history # << >>
        /\ GetExtractionStats(extraction_history).documents_processed >= 1
        /\ GetExtractionStats(extraction_history).total_tables_extracted = 0

(***************************************************************************)
(* The session of one call.                                                *)
(***************************************************************************)
AllStages ==
    <<"analyze_structure", "extract_tables", "validate_extraction", "enhance_context",
      "compile_results">>

IsPrefix(s, t) == Len(s) <= Len(t) /\ s = SubSeq(t, 1, Len(s))

\* the session state a stage of extract belongs to
SessionState(stage) ==
    CASE stage = "analyze_structure" -> "RECEIVING_CANDIDATES"
      [] stage = "extract_tables" -> "RECEIVING_CANDIDATES"
      [] stage = "validate_extraction" -> "VALIDATING"
      [] stage = "enhance_context" -> "LINKING"
      [] stage = "compile_results" -> "COMPLETE"

\* the session states a call has entered, in order
RECURSIVE SessionStates(_)
SessionStates(log) ==
    IF log = << >> THEN << >>
    ELSE LET rest == SessionStates(Tail(log))
             first == SessionState(Head(log))
         IN  IF rest # << >> /\ Head(rest) = first THEN rest ELSE <<first>> \o rest

Enhanced(w) == "enhance_context" \in Range(stages[w])

\* C6, as claimed: a call that has recorded its result has entered the six session
\* states RECEIVING_CANDIDATES, VALIDATING, RESOLVING_TITLES, MERGING, LINKING,
\* COMPLETE, each once and in this order.
C6_SixSessionStates ==
    \A w \in Workers :
        Recorded(w) =>
            SessionStates(stages[w]) =
                <<"RECEIVING_CANDIDATES", "VALIDATING", "RESOLVING_TITLES", "MERGING",
                  "LINKING", "COMPLETE">>

\* C6, amended: a call enters the stages analyse, extract, validate, enhance, compile
\* in this order, each at most once and none skipped (the session states
\* RECEIVING_CANDIDATES, VALIDATING, LINKING, COMPLETE; there is no title or merge
\* stage); each stage is handed the whole output of the one before; and a result is
\* in extraction_history only when all five stages of its call have run.
C6_StagesInOrder ==
    /\ Len(extraction_history) <= calls
    /\ \A w \in Workers :
          /\ IsPrefix(stages[w], AllStages)
          /\ Validated(w) => validated_tables[w] = ValidateExtraction(tables[w], config)
          /\ Enhanced(w) =>
                /\ Ids(enhanced_tables[w]) = Ids(validated_tables[w])
                /\ Len(enhanced_tables[w]) = Len(validated_tables[w])
          /\ Recorded(w) =>
                /\ stages[w] = AllStages
                /\ SessionStates(stages[w]) =
                      <<"RECEIVING_CANDIDATES", "VALIDATING", "LINKING", "COMPLETE">>
                /\ ref[w] <= Len(extraction_history)
                /\ Result(w).tables = enhanced_tables[w]
                /\ Result(w).tables_found = Len(validated_tables[w])
          /\ pc[w] = "raised" => ~Recorded(w)

\* C6: a call has returned after all five stages, and validation had rejected a table
C6_Witness ==
    \E w \in Workers :
        /\ pc[w] = "returned" /\ Recorded(w)
        /\ stages[w] = AllStages
        /\ Len(tables[w]) = 2 /\ Len(enhanced_tables[w]) = 1

(***************************************************************************)
(* Related tables.                                                         *)
(***************************************************************************)
RelatedTables(table) == table.relationships[1].related_tables

\* table b is listed in the related_tables of table a
Listed(a, b) == b.title \in Range(RelatedTables(a))

Quiescent == \A w \in Workers : Callable(w)

PatternIds(patterns) == {patterns[i].pattern_id : i \in DOMAIN patterns}

\* the discoveries recorded for a hash
Discoveries(h) ==
    {k \in DOMAIN novel_discoveries : novel_discoveries[k].pattern.pattern_id = h}

\* C8, as claimed: learning changes nothing of what extract produced: the result of
\* the call, which is the record in extraction_history, is the compiled result.
C8_LearningLeavesResult ==
    \A w \in Workers :
        Recorded(w) => Result(w) = CompileResults(enhanced_tables[w], pdf_path[w])

\* C9, as claimed: after any sequence of calls the memory holds a record for every
\* hash met, and the tally kept for it (its discoveries: a pattern record has no
\* counter) is the number of times the hash was met.
C9_OccurrencesCounted ==
    Quiescent =>
        \A h \in DOMAIN seen :
            /\ h \in DOMAIN learned_patterns
            /\ Cardinality(Discoveries(h)) = seen[h]

\* C9, amended: a hash that is not in the memory when the tables of a document are
\* examined is reported as novel, once for every table of the document that has it,
\* and is inserted; a hash that is in the memory is not reported and the memory keeps
\* the record it has (no occurrence is counted); after any sequence of calls the
\* memory holds one record for every distinct hash met.
C9_OneRecordPerHash ==
    /\ Quiescent => DOMAIN learned_patterns = DOMAIN seen
    /\ \A h \in DOMAIN learned_patterns :
          /\ learned_patterns[h].pattern_id = h
          /\ Discoveries(h) # {}
          /\ \A k \in Discoveries(h) :
                (\A k2 \in Discoveries(h) : k2 <= k)
                    => novel_discoveries[k].pattern = learned_patterns[h]
    /\ \A w \in Workers :
          pc[w] = "identified" =>
              \A i \in DOMAIN Result(w).tables :
                  LET h == HashStructure(Result(w).tables[i])
                      reported == {k \in DOMAIN novel_patterns[w] :
                                      novel_patterns[w][k].pattern_id = h}
                      having == {j \in DOMAIN Result(w).tables :
                                    HashStructure(Result(w).tables[j]) = h}
                  IN  IF h \in DOMAIN learned_patterns
                      THEN reported = {}
                      ELSE Cardinality(reported) = Cardinality(having)

\* C9: a hash has been met in two documents and the memory holds its one record, with
\* the one discovery
C9_Witness ==
    /\ Quiescent
    /\ Len(extraction_history) = 2
    /\ \E h \in DOMAIN seen :
          /\ seen[h] = 2
          /\ h \in DOMAIN learned_patterns
          /\ Cardinality(Discoveries(h)) = 1

\* C10, as claimed: when two threads share the extractor, a hash is reported as novel
\* by one of them only, and every hash met is in learned_patterns once both are done.
C10_InsertIfAbsent ==
    /\ \A w1, w2 \in Workers :
          w1 # w2 => PatternIds(novel_patterns[w1]) \cap PatternIds(novel_patterns[w2]) = {}
    /\ Quiescent => \A h \in DOMAIN seen : h \in DOMAIN learned_patterns

(***************************************************************************)
(* The configuration option capture_context.                               *)
(***************************************************************************)
\* the value of the option; the documented default stands for a missing key
CaptureContext(cfg) ==
    IF "capture_context" \in DOMAIN cfg THEN cfg.capture_context ELSE TRUE

\* C11, as claimed: the relationships of the tables of a result are computed exactly
\* when capture_context is true; with capture_context false they are left unset.
C11_LinkerOnlyWithCaptureContext ==
    \A w \in Workers :
        Recorded(w) =>
            \A i \in DOMAIN Result(w).tables :
                (Result(w).tables[i].relationships # None) <=> CaptureContext(config)

(***************************************************************************)
(* Lexical overlap of titles.                                              *)
(***************************************************************************)
\* the words of a title: lower-cased, split at blanks
TitleTokens(table) == Range(Split(Lower(table.title)))

\* words that carry no content
Stopwords == {<<"b", "y">>, <<"o", "f">>, <<"t", "h", "e">>, <<"a">>, <<"a", "n", "d">>}

\* C12, as claimed: of two tables with different table_id, one lists the other as
\* related exactly when their titles share more than two words that are not
\* stopwords.
C12_OverlapWithoutStopwords ==
    \A w \in Workers :
        Enhanced(w) =>
            \A i, j \in DOMAIN enhanced_tables[w] :
                LET a == enhanced_tables[w][i]
                    b == enhanced_tables[w][j]
                IN  a.table_id # b.table_id =>
                        (Listed(a, b) <=>
                            Cardinality((TitleTokens(a) \cap TitleTokens(b)) \ Stopwords) > 2)

\* C12, amended: of two tables with different table_id, one lists the other as
\* related exactly when their lower-cased titles, split at blanks, share more than
\* two words, stopwords counted like any other word; two or fewer common words
\* never produce a link.
C12_OverlapAllTokens ==
    \A w \in Workers :
        Enhanced(w) =>
            \A i, j \in DOMAIN enhanced_tables[w] :
                LET a == enhanced_tables[w][i]
                    b == enhanced_tables[w][j]
                IN  a.table_id # b.table_id =>
                        (Listed(a, b) <=> Cardinality(TitleTokens(a) \cap TitleTokens(b)) > 2)

\* C12: two tables whose titles share three words, one of them a stopword, list each
\* other
C12_Witness ==
    \E w \in Workers :
        /\ Enhanced(w)
        /\ \E i, j \in DOMAIN enhanced_tables[w] :
              LET a == enhanced_tables[w][i]
                  b == enhanced_tables[w][j]
                  common == TitleTokens(a) \cap TitleTokens(b)
              IN  /\ a.table_id # b.table_id
                  /\ Cardinality(common) = 3
                  /\ Cardinality(common \ Stopwords) = 2
                  /\ Listed(a, b)

(***************************************************************************)
(* Section classification.                                                 *)
(***************************************************************************)
Sections == {"Financial Summary", "Project Timeline", "Technical Details"}

\* the section _enhance_context stored in the table
DocumentSection(table) == table.relationships[1].document_section

\* the keyword is one of the words of the title
HasToken(table, kw) == kw \in TitleTokens(table)

\* the keyword occurs somewhere in the lower-cased title
HasSubstring(table, kw) == Contains(Lower(table.title), kw)

\* C13, as claimed: the section is one of three labels and depends on the title
\* only; a title with the word cost or budget is a Financial Summary, otherwise one
\* with the word milestone or schedule is a Project Timeline, and a title with none
\* of these words is Technical Details.
C13_SectionByToken ==
    \A w \in Workers :
        Enhanced(w) =>
            \A i \in DOMAIN enhanced_tables[w] :
                LET t == enhanced_tables[w][i]
                    financial == HasToken(t, KwCost) \/ HasToken(t, KwBudget)
                    timeline == HasToken(t, KwMilestone) \/ HasToken(t, KwSchedule)
                IN  /\ DocumentSection(t) \in Sections
                    /\ \A j \in DOMAIN enhanced_tables[w] :
                          enhanced_tables[w][j].title = t.title
                              => DocumentSection(enhanced_tables[w][j]) = DocumentSection(t)
                    /\ financial => DocumentSection(t) = "Financial Summary"
                    /\ (~financial /\ timeline) => DocumentSection(t) = "Project Timeline"
                    /\ (~financial /\ ~timeline) => DocumentSection(t) = "Technical Details"

\* C13, amended: the section is one of three labels and depends on the title only; a
\* title whose lower-cased text contains cost or budget anywhere, inside a longer
\* word too, is a Financial Summary, otherwise one that contains milestone or
\* schedule is a Project Timeline, and a title that contains none of the four, the
\* empty title included, is Technical Details.
C13_SectionBySubstring ==
    \A w \in Workers :
        Enhanced(w) =>
            \A i \in DOMAIN enhanced_tables[w] :
                LET t == enhanced_tables[w][i]
                    financial == HasSubstring(t, KwCost) \/ HasSubstring(t, KwBudget)
                    timeline == HasSubstring(t, KwMilestone) \/ HasSubstring(t, KwSchedule)
                IN  /\ DocumentSection(t) \in Sections
                    /\ \A j \in DOMAIN enhanced_tables[w] :
                          enhanced_tables[w][j].title = t.title
                              => DocumentSection(enhanced_tables[w][j]) = DocumentSection(t)
                    /\ financial => DocumentSection(t) = "Financial Summary"
                    /\ (~financial /\ timeline) => DocumentSection(t) = "Project Timeline"
                    /\ (~financial /\ ~timeline) => DocumentSection(t) = "Technical Details"

\* C13: a title that has none of the keywords as a word, but cost inside the word
\* costs, has been classified
C13_Witness ==
    \E w \in Workers :
        /\ Enhanced(w)
        /\ \E i \in DOMAIN enhanced_tables[w] :
              LET t == enhanced_tables[w][i]
              IN  /\ \A kw \in {KwCost, KwBudget, KwMilestone, KwSchedule} : ~HasToken(t, kw)
                  /\ HasSubstring(t, KwCost)
                  /\ DocumentSection(t) = "Financial Summary"

(***************************************************************************)
(* Discoveries and learned patterns.                                       *)
(***************************************************************************)
\* C14, as claimed: for one extractor, after any sequence of calls the number of
\* entries of novel_discoveries is the number of entries of learned_patterns, and the
\* novel patterns reported for one document hold no pattern_id twice.
C14_OneDiscoveryPerPattern ==
    /\ Quiescent => Len(novel_discoveries) = Cardinality(DOMAIN learned_patterns)
    /\ \A w \in Workers :
          \A i, j \in DOMAIN novel_patterns[w] :
              novel_patterns[w][i].pattern_id = novel_patterns[w][j].pattern_id => i = j

(***************************************************************************)
(* The extraction history and its statistics.                              *)
(***************************************************************************)
\* the sum of tables_found over the first n records of the history
RECURSIVE TablesFoundUpTo(_)
TablesFoundUpTo(n) ==
    IF n = 0 THEN 0 ELSE extraction_history[n].tables_found + TablesFoundUpTo(n - 1)

\* what get_extraction_stats answers between two calls
StatsAgree ==
    Quiescent =>
        LET stats == GetExtractionStats(extraction_history)
        IN  /\ Len(extraction_history) = completed
            /\ completed = 0 => stats = [message |-> "No extractions performed yet"]
            /\ completed >= 1 =>
                  /\ "message" \notin DOMAIN stats
                  /\ stats.documents_processed = completed
                  /\ stats.total_tables_extracted = TablesFoundUpTo(completed)

\* a step appends at most one record and removes none, the call that returns has
\* appended its own, and get_extraction_stats assigns nothing
HistoryStep ==
    /\ Len(extraction_history') \in {Len(extraction_history), Len(extraction_history) + 1}
    /\ completed' # completed =>
          /\ completed' = completed + 1
          /\ Len(extraction_history') = completed'
    /\ \A w \in Workers :
          GetStats(w) =>
              UNCHANGED <<config, extraction_history, learned_patterns, novel_discoveries>>

\* C15: extraction_history grows by one record for every call of extract that
\* returns and is never shortened; after n >= 1 such calls get_extraction_stats
\* reports documents_processed = n and total_tables_extracted = the sum of
\* tables_found over the n results; before any of them it answers the message "No
\* extractions performed yet" only; and calling it changes no state.
C15_HistoryCountsCompletedCalls == []StatsAgree /\ [][HistoryStep]_vars

\* C15: two calls have returned results with different numbers of tables, and
\* get_extraction_stats can be called
C15_Witness ==
    /\ Quiescent
    /\ completed = 2
    /\ ENABLED GetStats(1)
    /\ extraction_history[1].tables_found # extraction_history[2].tables_found
    /\ GetExtractionStats(extraction_history).documents_processed = 2
    /\ GetExtractionStats(extraction_history).total_tables_extracted >= 3

=============================================================================
